---- MODULE Spec2Model ----
(***************************************************************************)
(* Model of the SDK download / restore workflow of armory.py.             *)
(*                                                                         *)
(* download_sdk probes git, resets three module globals and calls          *)
(* git_clone once per repository.  git_clone moves or deletes the existing *)
(* copy and calls run_proc, which either fails to start the process and    *)
(* calls done(1) on the caller thread, or starts a waiter thread that      *)
(* calls done(0) when the process exits.  done is a closure over the       *)
(* module globals repos_done / repos_updated / repos_total; it takes no    *)
(* lock, so its reads and writes of the globals are separate steps that    *)
(* interleave with the other threads.                                      *)
(*                                                                         *)
(* The source lists nine repositories and sets repos_total = 9; the model  *)
(* scales the list and the total together to NumRepos.                     *)
(***************************************************************************)
EXTENDS Integers, Sequences, FiniteSets, TLC

NumRepos == 2
MaxCalls == 3
MaxBatches == 2

Repos == 1..NumRepos
Batches == 1..MaxBatches

\* The local paths of the git_clone calls of download_sdk, in call order.
\* Path i of the model is FetchNames[i].
FetchNames ==
    <<"armory", "iron", "lib/haxebullet", "lib/haxerecast", "lib/zui",
      "lib/armory_tools", "Krom", "Kha", "nodejs">>

\* RestoreNames with the first restore_repo call left out.
RestoreNamesShort ==
    <<"iron", "lib/haxebullet", "lib/haxerecast", "lib/zui",
      "lib/armory_tools", "Kha", "Krom", "nodejs">>

\* The local paths of the restore_repo calls of the restore operator, in
\* call order.
RestoreNames ==
    <<"armory", "iron", "lib/haxebullet", "lib/haxerecast", "lib/zui",
      "lib/armory_tools", "Kha", "Krom", "nodejs">>

Modelled(n) == \E i \in Repos : FetchNames[i] = n

PathIndex(n) == CHOOSE i \in Repos : FetchNames[i] = n

\* The restore_repo calls on the paths of the model, as path indexes.
RestoreOrder ==
    LET sel == SelectSeq(RestoreNames, Modelled)
    IN [k \in 1..Len(sel) |-> PathIndex(sel[k])]

\* Content of a directory: <<>> when the path does not exist.
Absent == <<>>
OldCopy == <<"old">>
OldBackup == <<"oldbackup">>
CloneOf(b) == <<"clone", b>>
IsClone(c) == Len(c) = 2

VARIABLES
    repos_updated, repos_done, repos_total,   \* module globals
    mpc, mi, nb,          \* caller thread: position, repository index, batches started
    task,                 \* task[b][i]: clone i of batch b: [st, err, t]
    fs, bk,               \* fs[i]: content at path i; bk[i]: content at path i + '_backup'
    okSig, failSig,       \* per batch: how often each aggregate message was emitted
    outcome,              \* per batch: how the download_sdk call ended
    prepared,             \* prepared[b][i]: git_clone of batch b has handled path i
    snap, snapBk,         \* content at path i and at its backup when git_clone last began on it
    restored,             \* restored[i]: restore_repo has restored path i since then
    running,              \* ArmAddonStartButton.running
    calls,                \* the calls of start.register and start.unregister so far
    skip_update,          \* the skip_update property of the preferences
    scripts_on_path,      \* sys.path holds the scripts folder: import start succeeds
    enabled               \* register() has run and unregister() has not undone it

vars == <<repos_updated, repos_done, repos_total, mpc, mi, nb, task, fs, bk,
          okSig, failSig, outcome, prepared, snap, snapBk, restored,
          running, calls, skip_update, scripts_on_path, enabled>>

globals == <<repos_updated, repos_done, repos_total>>
files == <<fs, bk>>
history == <<prepared, snap, snapBk, restored>>
signals == <<okSig, failSig>>
life == <<running, calls, skip_update, scripts_on_path, enabled>>

NoTask == [st |-> "none", err |-> 0, t |-> 0]

ProbeOutcomes == {"match", "nomatch", "oserror"}

\* git_test: True only when the version command ran and its output matched.
git_test(o) == o = "match"

InitFiles ==
    \E f \in {Absent, OldCopy}, k \in {Absent, OldBackup} :
        /\ fs = [i \in Repos |-> f]
        /\ bk = [i \in Repos |-> k]

Init ==
    /\ repos_updated = 0
    /\ repos_done = 0
    /\ repos_total = 0
    /\ mpc = "idle"
    /\ mi = 0
    /\ nb = 0
    /\ task = [b \in Batches |-> [i \in Repos |-> NoTask]]
    /\ InitFiles
    /\ okSig = [b \in Batches |-> 0]
    /\ failSig = [b \in Batches |-> 0]
    /\ outcome = [b \in Batches |-> "none"]
    /\ snap = [i \in Repos |-> Absent]
    /\ snapBk = [i \in Repos |-> Absent]
    /\ prepared = [b \in Batches |-> [i \in Repos |-> FALSE]]
    /\ restored = [i \in Repos |-> FALSE]
    /\ running = FALSE
    /\ calls = <<>>
    /\ skip_update = FALSE
    /\ scripts_on_path = FALSE
    /\ enabled = TRUE

(***************************************************************************)
(* download_sdk on the caller thread                                       *)
(***************************************************************************)

\* Install / Update operator: download_sdk up to the sdk_path check.
\* With no SDK path configured it reports an error and returns.
DownloadBegin(limit) ==
    /\ mpc = "idle"
    /\ nb < limit
    /\ \E configured \in BOOLEAN :
          IF configured
          THEN /\ nb' = nb + 1
               /\ mpc' = "probe"
               /\ outcome' = [outcome EXCEPT ![nb + 1] = "started"]
               /\ UNCHANGED <<globals, mi, task, files, signals, history>>
          ELSE UNCHANGED vars
    /\ UNCHANGED life

\* GitProbe without the return after the failed probe.
GitProbeNoReturn ==
    /\ mpc = "probe"
    /\ \E o \in ProbeOutcomes :
          IF git_test(o)
          THEN /\ mpc' = "reset_updated"
               /\ UNCHANGED outcome
          ELSE /\ mpc' = "reset_updated"
               /\ outcome' = [outcome EXCEPT ![nb] = "cancelled"]
    /\ UNCHANGED <<globals, mi, nb, task, files, signals, history>>
    /\ UNCHANGED life

\* if not git_test(): report the error and return CANCELLED.
GitProbe ==
    /\ mpc = "probe"
    /\ \E o \in ProbeOutcomes :
          IF git_test(o)
          THEN /\ mpc' = "reset_updated"
               /\ UNCHANGED outcome
          ELSE /\ mpc' = "idle"
               /\ outcome' = [outcome EXCEPT ![nb] = "cancelled"]
    /\ UNCHANGED <<globals, mi, nb, task, files, signals, history>>
    /\ UNCHANGED life

\* repos_updated = 0
ResetUpdated ==
    /\ mpc = "reset_updated"
    /\ repos_updated' = 0
    /\ mpc' = "reset_done"
    /\ UNCHANGED <<repos_done, repos_total, mi, nb, task, files, signals, outcome, history>>
    /\ UNCHANGED life

\* repos_done = 0
ResetDone ==
    /\ mpc = "reset_done"
    /\ repos_done' = 0
    /\ mpc' = "reset_total"
    /\ UNCHANGED <<repos_updated, repos_total, mi, nb, task, files, signals, outcome, history>>
    /\ UNCHANGED life

\* repos_total = 9, then the first git_clone call
ResetTotal ==
    /\ mpc = "reset_total"
    /\ repos_total' = NumRepos
    /\ mpc' = "pre"
    /\ mi' = 1
    /\ UNCHANGED <<repos_updated, repos_done, nb, task, files, signals, outcome, history>>
    /\ UNCHANGED life

\* git_clone_path without the rmtree of a copy that was not renamed.
git_clone_path_normtree(f, k) == IF f # Absent /\ k = Absent THEN Absent ELSE f

\* The copy at the path after the two filesystem statements of git_clone.
git_clone_path(f, k) == Absent

\* git_clone_backup that renames over a backup that exists.
git_clone_backup_overwrite(f, k) == IF f # Absent THEN f ELSE k

\* The backup after the two filesystem statements of git_clone.
git_clone_backup(f, k) == IF f # Absent /\ k = Absent THEN f ELSE k

\* git_clone up to the run_proc call: rename to _backup, else rmtree.
\* os.rename and shutil.rmtree may raise; nothing in git_clone or
\* download_sdk catches it, so the exception leaves download_sdk.
GitClonePre ==
    /\ mpc = "pre"
    /\ snap' = [snap EXCEPT ![mi] = fs[mi]]
    /\ snapBk' = [snapBk EXCEPT ![mi] = bk[mi]]
    /\ prepared' = [prepared EXCEPT ![nb][mi] = TRUE]
    /\ restored' = [restored EXCEPT ![mi] = FALSE]
    /\ \E fail \in {"none", "rename", "rmtree"} :
          \/ /\ fail = "none"
             /\ fs' = [fs EXCEPT ![mi] = git_clone_path(fs[mi], bk[mi])]
             /\ bk' = [bk EXCEPT ![mi] = git_clone_backup(fs[mi], bk[mi])]
             /\ mpc' = "launch"
             /\ UNCHANGED <<mi, outcome>>
          \/ /\ fail = "rename"
             /\ fs[mi] # Absent /\ bk[mi] = Absent
             /\ UNCHANGED files
             /\ mpc' = "idle"
             /\ mi' = 0
             /\ outcome' = [outcome EXCEPT ![nb] = "raised"]
          \/ /\ fail = "rmtree"
             /\ fs[mi] # Absent /\ bk[mi] # Absent
             /\ UNCHANGED files
             /\ mpc' = "idle"
             /\ mi' = 0
             /\ outcome' = [outcome EXCEPT ![nb] = "raised"]
    /\ UNCHANGED <<globals, nb, task, signals>>
    /\ UNCHANGED life

\* The caller goes on to the next git_clone call, or returns.
Advance ==
    IF mi < NumRepos
    THEN /\ mpc' = "pre"
         /\ mi' = mi + 1
         /\ UNCHANGED outcome
    ELSE /\ mpc' = "idle"
         /\ mi' = 0
         /\ outcome' = [outcome EXCEPT ![nb] = "returned"]

\* run_proc: Popen succeeds and the waiter thread is started.
LaunchOk ==
    /\ mpc = "launch"
    /\ task' = [task EXCEPT ![nb][mi] = [st |-> "wait", err |-> 0, t |-> 0]]
    /\ Advance
    /\ UNCHANGED <<globals, nb, files, signals, history>>
    /\ UNCHANGED life

\* run_proc: Popen raises; done(1) is called on the caller thread.
LaunchFail ==
    /\ mpc = "launch"
    /\ task' = [task EXCEPT ![nb][mi] = [st |-> "d1", err |-> 1, t |-> 0]]
    /\ mpc' = "inline"
    /\ UNCHANGED <<globals, mi, nb, files, signals, outcome, history>>
    /\ UNCHANGED life

\* InlineReturn with the exception raised again after done(1).
InlineReturnReraise ==
    /\ mpc = "inline"
    /\ task[nb][mi].st = "fin"
    /\ mpc' = "idle"
    /\ mi' = 0
    /\ outcome' = [outcome EXCEPT ![nb] = "raised"]
    /\ UNCHANGED <<globals, nb, task, files, signals, history>>
    /\ UNCHANGED life

\* run_proc after done(1) returned: print the error, return to git_clone.
InlineReturn ==
    /\ mpc = "inline"
    /\ task[nb][mi].st = "fin"
    /\ Advance
    /\ UNCHANGED <<globals, nb, task, files, signals, history>>
    /\ UNCHANGED life

(***************************************************************************)
(* The clone process and the completion callback                           *)
(***************************************************************************)

\* The git clone process of batch b on path i exits with status rc.  A
\* clone that succeeded has written the path; a clone that failed, or that
\* found the path occupied, leaves it as it is.
CloneExits(b, i) ==
    \E rc \in {0, 1} :
        IF rc = 0 /\ fs[i] = Absent
        THEN fs' = [fs EXCEPT ![i] = CloneOf(b)]
        ELSE UNCHANGED fs

\* fn: p.wait() returns and done(0) is called, whatever the exit status.
ProcExit(b, i) ==
    /\ task[b][i].st = "wait"
    /\ task' = [task EXCEPT ![b][i].st = "d1"]
    /\ CloneExits(b, i)
    /\ UNCHANGED <<globals, mpc, mi, nb, bk, signals, outcome, history>>
    /\ UNCHANGED life

\* repos_done += 1, the read
DoneReadDone(b, i) ==
    /\ task[b][i].st = "d1"
    /\ task' = [task EXCEPT ![b][i].st = "d2", ![b][i].t = repos_done]
    /\ UNCHANGED <<globals, mpc, mi, nb, files, signals, outcome, history>>
    /\ UNCHANGED life

\* repos_done += 1, the write; then if error == 0
DoneWriteDone(b, i) ==
    /\ task[b][i].st = "d2"
    /\ repos_done' = task[b][i].t + 1
    /\ task' = [task EXCEPT ![b][i].st = IF task[b][i].err = 0 THEN "d3" ELSE "d5",
                            ![b][i].t = 0]
    /\ UNCHANGED <<repos_updated, repos_total, mpc, mi, nb, files, signals, outcome, history>>
    /\ UNCHANGED life

\* repos_updated += 1, the read
DoneReadUpdated(b, i) ==
    /\ task[b][i].st = "d3"
    /\ task' = [task EXCEPT ![b][i].st = "d4", ![b][i].t = repos_updated]
    /\ UNCHANGED <<globals, mpc, mi, nb, files, signals, outcome, history>>
    /\ UNCHANGED life

\* repos_updated += 1, the write
DoneWriteUpdated(b, i) ==
    /\ task[b][i].st = "d4"
    /\ repos_updated' = task[b][i].t + 1
    /\ task' = [task EXCEPT ![b][i].st = "d5", ![b][i].t = 0]
    /\ UNCHANGED <<repos_done, repos_total, mpc, mi, nb, files, signals, outcome, history>>
    /\ UNCHANGED life

\* if repos_updated == repos_total: print the success message
DoneCheckUpdated(b, i) ==
    /\ task[b][i].st = "d5"
    /\ IF repos_updated = repos_total
       THEN /\ okSig' = [okSig EXCEPT ![b] = @ + 1]
            /\ task' = [task EXCEPT ![b][i].st = "fin"]
       ELSE /\ UNCHANGED okSig
            /\ task' = [task EXCEPT ![b][i].st = "d6"]
    /\ UNCHANGED <<globals, mpc, mi, nb, files, failSig, outcome, history>>
    /\ UNCHANGED life

\* elif repos_done == repos_total: self.report the failure
DoneCheckDone(b, i) ==
    /\ task[b][i].st = "d6"
    /\ IF repos_done = repos_total
       THEN failSig' = [failSig EXCEPT ![b] = @ + 1]
       ELSE UNCHANGED failSig
    /\ task' = [task EXCEPT ![b][i].st = "fin"]
    /\ UNCHANGED <<globals, mpc, mi, nb, files, okSig, outcome, history>>
    /\ UNCHANGED life

(***************************************************************************)
(* Restore operator on the caller thread                                   *)
(***************************************************************************)

\* ArmAddonRestoreButton.execute up to the first restore_repo call.
RestoreBegin ==
    /\ mpc = "idle"
    /\ \E configured \in BOOLEAN :
          IF configured
          THEN /\ mpc' = "restore"
               /\ mi' = 1
               /\ UNCHANGED <<globals, nb, task, files, signals, outcome, history>>
          ELSE UNCHANGED vars
    /\ UNCHANGED life

\* restore_repo_path without the rename of the backup.
restore_repo_path_norename(f, k) == IF k # Absent THEN Absent ELSE f

\* restore_repo_path without the test for the backup.
restore_repo_path_unguarded(f, k) == k

\* The copy at the path after restore_repo.
restore_repo_path(f, k) == IF k # Absent THEN k ELSE f

\* The backup after restore_repo.
restore_repo_backup(f, k) == Absent

\* One restore_repo call; shutil.rmtree and os.rename may raise, which
\* ends the operator.
RestoreRepo ==
    /\ mpc = "restore"
    /\ LET p == RestoreOrder[mi] IN
       \E fail \in {"none", "rmtree", "rename"} :
          \/ /\ fail = "none"
             /\ fs' = [fs EXCEPT ![p] = restore_repo_path(fs[p], bk[p])]
             /\ bk' = [bk EXCEPT ![p] = restore_repo_backup(fs[p], bk[p])]
             /\ restored' = [restored EXCEPT ![p] = TRUE]
             /\ IF mi < Len(RestoreOrder)
                THEN mpc' = "restore" /\ mi' = mi + 1
                ELSE mpc' = "idle" /\ mi' = 0
          \/ /\ fail = "rmtree"
             /\ bk[p] # Absent /\ fs[p] # Absent
             /\ UNCHANGED <<files, restored>>
             /\ mpc' = "idle"
             /\ mi' = 0
          \/ /\ fail = "rename"
             /\ bk[p] # Absent
             /\ fs' = [fs EXCEPT ![p] = Absent]
             /\ UNCHANGED <<bk, restored>>
             /\ mpc' = "idle"
             /\ mi' = 0
    /\ UNCHANGED <<globals, nb, task, signals, outcome, prepared, snap, snapBk>>
    /\ UNCHANGED life

(***************************************************************************)
(* Spec: one install/update batch, every interleaving of the caller        *)
(* thread and the waiter threads at the granularity of the reads and       *)
(* writes of the globals.                                                  *)
(***************************************************************************)

Next ==
    \/ DownloadBegin(1)
    \/ GitProbe
    \/ ResetUpdated
    \/ ResetDone
    \/ ResetTotal
    \/ GitClonePre
    \/ LaunchOk
    \/ LaunchFail
    \/ InlineReturn
    \/ \E b \in Batches, i \in Repos : ProcExit(b, i)
    \/ \E b \in Batches, i \in Repos : DoneReadDone(b, i)
    \/ \E b \in Batches, i \in Repos : DoneWriteDone(b, i)
    \/ \E b \in Batches, i \in Repos : DoneReadUpdated(b, i)
    \/ \E b \in Batches, i \in Repos : DoneWriteUpdated(b, i)
    \/ \E b \in Batches, i \in Repos : DoneCheckUpdated(b, i)
    \/ \E b \in Batches, i \in Repos : DoneCheckDone(b, i)

Spec == Init /\ [][Next]_vars

\* Fairness: a started handler runs on, every clone process exits and
\* every waiter thread is scheduled.  Nothing obliges the user to start.
CallerStep ==
    \/ GitProbe
    \/ ResetUpdated
    \/ ResetDone
    \/ ResetTotal
    \/ GitClonePre
    \/ LaunchOk
    \/ LaunchFail
    \/ InlineReturn

TaskStep(b, i) ==
    \/ ProcExit(b, i)
    \/ DoneReadDone(b, i)
    \/ DoneWriteDone(b, i)
    \/ DoneReadUpdated(b, i)
    \/ DoneWriteUpdated(b, i)
    \/ DoneCheckUpdated(b, i)
    \/ DoneCheckDone(b, i)

FairSpec ==
    /\ Init
    /\ [][Next]_vars
    /\ WF_vars(CallerStep)
    /\ \A b \in Batches, i \in Repos : WF_vars(TaskStep(b, i))

(***************************************************************************)
(* SpecOps and SpecOverlap follow the operators over several batches.      *)
(* There a thread runs done from its first read to its return without      *)
(* another thread running in between.                                      *)
(***************************************************************************)

\* done(error) of batch b, uninterrupted.
DoneRun(b, error) ==
    /\ repos_done' = repos_done + 1
    /\ repos_updated' = IF error = 0 THEN repos_updated + 1 ELSE repos_updated
    /\ UNCHANGED repos_total
    /\ IF repos_updated' = repos_total
       THEN /\ okSig' = [okSig EXCEPT ![b] = @ + 1]
            /\ UNCHANGED failSig
       ELSE IF repos_done' = repos_total
            THEN /\ failSig' = [failSig EXCEPT ![b] = @ + 1]
                 /\ UNCHANGED okSig
            ELSE UNCHANGED signals

\* fn as a whole: the process exits, p.wait() returns, done(0) runs.
WaiterRun(b, i) ==
    /\ task[b][i].st = "wait"
    /\ task' = [task EXCEPT ![b][i].st = "fin"]
    /\ CloneExits(b, i)
    /\ DoneRun(b, 0)
    /\ UNCHANGED <<mpc, mi, nb, bk, outcome, history>>
    /\ UNCHANGED life

\* run_proc when Popen raises, as a whole: done(1) runs, the error is
\* printed and run_proc returns.
LaunchFailRun ==
    /\ mpc = "launch"
    /\ task' = [task EXCEPT ![nb][mi] = [st |-> "fin", err |-> 1, t |-> 0]]
    /\ DoneRun(nb, 1)
    /\ Advance
    /\ UNCHANGED <<nb, files, history>>
    /\ UNCHANGED life

\* No clone of any batch is still running or reporting.
Quiescent == \A b \in Batches, i \in Repos : task[b][i].st \in {"none", "fin"}

(***************************************************************************)
(* SpecOps: up to MaxBatches install/update batches and any number of      *)
(* restores, one after the other: an operator is started when the clones   *)
(* of the batch before it have all reported.                               *)
(***************************************************************************)

NextOps ==
    \/ Quiescent /\ DownloadBegin(MaxBatches)
    \/ GitProbe
    \/ ResetUpdated
    \/ ResetDone
    \/ ResetTotal
    \/ GitClonePre
    \/ LaunchOk
    \/ LaunchFailRun
    \/ Quiescent /\ RestoreBegin
    \/ RestoreRepo
    \/ \E b \in Batches, i \in Repos : WaiterRun(b, i)

SpecOps == Init /\ [][NextOps]_vars

(***************************************************************************)
(* SpecOverlap: a fresh SDK directory and two install/update batches, the  *)
(* second started whenever the caller thread is idle, also while clones    *)
(* of the first are in flight.                                             *)
(***************************************************************************)

InitFresh ==
    /\ Init
    /\ \A i \in Repos : fs[i] = Absent /\ bk[i] = Absent

NextOverlap ==
    \/ DownloadBegin(2)
    \/ GitProbe
    \/ ResetUpdated
    \/ ResetDone
    \/ ResetTotal
    \/ GitClonePre
    \/ LaunchOk
    \/ LaunchFailRun
    \/ \E b \in Batches, i \in Repos : WaiterRun(b, i)

SpecOverlap == InitFresh /\ [][NextOverlap]_vars

(***************************************************************************)
(* The integration layer: the Start and Stop operators and the host        *)
(* lifecycle events that call them.  They run on the caller thread.        *)
(***************************************************************************)

work == <<globals, mpc, mi, nb, task, files, signals, outcome, history>>

\* sdk_path + "/armory/" exists; a copy of armory holds its blender folder.
ArmoryExists == fs[PathIndex("armory")] # Absent

\* ArmAddonStartButton.execute: cancelled without an SDK path or without
\* the armory folder; else the scripts folder is put on sys.path,
\* start.register is called and running is set.
StartExecute ==
    \E configured \in BOOLEAN :
        IF configured /\ ArmoryExists
        THEN /\ scripts_on_path' = TRUE
             /\ calls' = Append(calls, "register")
             /\ running' = TRUE
        ELSE UNCHANGED <<scripts_on_path, calls, running>>

\* ArmAddonStopButton.execute gets as far as import start, and the import
\* raises: the scripts folder was never put on sys.path.
StopRaises(configured) == configured /\ ArmoryExists /\ ~scripts_on_path

\* ArmAddonStopButton.execute: cancelled when the scripts folder does not
\* exist; else start.unregister is called and running is cleared.  It
\* does not look at running.
StopExecute(configured) ==
    /\ IF configured /\ ArmoryExists /\ scripts_on_path
       THEN /\ calls' = Append(calls, "unregister")
            /\ running' = FALSE
       ELSE UNCHANGED <<calls, running>>
    /\ UNCHANGED scripts_on_path

\* The load_post handler.
on_load_post ==
    /\ mpc = "idle"
    /\ enabled
    /\ Len(calls) < MaxCalls
    /\ IF running
       THEN UNCHANGED <<scripts_on_path, calls, running>>
       ELSE StartExecute
    /\ UNCHANGED <<skip_update, enabled, work>>

\* The update callback of the sdk_path property.
sdk_path_update ==
    /\ mpc = "idle"
    /\ enabled
    /\ Len(calls) < MaxCalls
    /\ IF skip_update
       THEN UNCHANGED <<skip_update, scripts_on_path, calls, running>>
       ELSE /\ skip_update' = TRUE
            /\ IF running
               THEN UNCHANGED <<scripts_on_path, calls, running>>
               ELSE StartExecute
    /\ UNCHANGED <<enabled, work>>

\* draw of the preferences panel clears skip_update.
draw ==
    /\ mpc = "idle"
    /\ enabled
    /\ skip_update' = FALSE
    /\ UNCHANGED <<running, calls, scripts_on_path, enabled, work>>

\* The Stop operator, called through bpy.ops.arm_addon.stop.
StopOperator ==
    /\ mpc = "idle"
    /\ enabled
    /\ Len(calls) < MaxCalls
    /\ \E configured \in BOOLEAN : StopExecute(configured)
    /\ UNCHANGED <<skip_update, enabled, work>>

\* unregister of the add-on: the Stop operator first, then the classes and
\* the handler are removed; an exception of the operator ends it early.
unregister ==
    /\ mpc = "idle"
    /\ enabled
    /\ Len(calls) < MaxCalls
    /\ \E configured \in BOOLEAN :
          /\ StopExecute(configured)
          /\ enabled' = StopRaises(configured)
    /\ UNCHANGED <<skip_update, work>>

\* register of the add-on, after an unregister; the module stays loaded.
register ==
    /\ mpc = "idle"
    /\ ~enabled
    /\ enabled' = TRUE
    /\ UNCHANGED <<running, calls, skip_update, scripts_on_path, work>>

(***************************************************************************)
(* SpecLife: the lifecycle events in any order, with restores of the SDK   *)
(* directory between them, up to MaxCalls calls of the integration layer.  *)
(***************************************************************************)

NextLife ==
    \/ on_load_post
    \/ sdk_path_update
    \/ draw
    \/ StopOperator
    \/ unregister
    \/ register
    \/ enabled /\ RestoreBegin
    \/ RestoreRepo

SpecLife == Init /\ [][NextLife]_vars

(***************************************************************************)
(* Properties                                                              *)
(***************************************************************************)

\* done has been called for clone i of batch b.
Invoked(b, i) == task[b][i].st \notin {"none", "wait"}

\* done has returned for clone i of batch b.
Reported(b, i) == task[b][i].st = "fin"

AllReported(b) == \A i \in Repos : Reported(b, i)

\* run_proc started a process for clone i of batch b.
Spawned(b, i) == task[b][i].st # "none" /\ task[b][i].err = 0

NumSpawned(b) == Cardinality({i \in Repos : Spawned(b, i)})

Emitted(b) == okSig[b] + failSig[b]

\* C1: a batch emits at most one aggregate message in all, and exactly one
\* once all of its completion callbacks have returned.
C1_ExactlyOneSignal ==
    \A b \in Batches :
        /\ Emitted(b) <= 1
        /\ AllReported(b) => Emitted(b) = 1

\* C2: once every callback of a batch has returned, completed is N,
\* succeeded is the number of clones that were started, the success message
\* was emitted iff all N were started and the failure message iff fewer.
C2_SignalMatchesCounters ==
    \A b \in Batches :
        (b = nb /\ AllReported(b)) =>
            /\ repos_done = NumRepos
            /\ repos_updated = NumSpawned(b)
            /\ (okSig[b] > 0) <=> (NumSpawned(b) = NumRepos)
            /\ (failSig[b] > 0) <=> (NumSpawned(b) < NumRepos)

\* C3: a batch that has emitted an aggregate message has had the callback
\* of every one of its clones invoked.
C3_NoSignalBeforeAllInvoked ==
    \A b \in Batches : Emitted(b) > 0 => \A i \in Repos : Invoked(b, i)

\* C4: 0 <= repos_updated <= repos_done <= repos_total in every state.
C4_CounterOrder ==
    /\ 0 <= repos_updated
    /\ repos_updated <= repos_done
    /\ repos_done <= repos_total

\* C5: repos_done never decreases, every write of it raises it by one, and
\* it is N once all N callbacks of the batch have returned.
C5_NoLostIncrement ==
    [][ /\ repos_done' >= repos_done
        /\ \A b \in Batches, i \in Repos :
              (task[b][i].st = "d2" /\ task'[b][i].st # "d2") =>
                  repos_done' = repos_done + 1
        /\ \A b \in Batches :
              (b = nb' /\ AllReported(b)') => repos_done' = NumRepos ]_vars

\* C6: a batch whose git probe succeeded eventually emits an aggregate
\* message.
C6_EventuallySignal ==
    \A b \in Batches :
        (nb = b /\ mpc = "reset_updated") ~> (Emitted(b) > 0)

\* C7: a batch whose git probe failed has prepared no path, started no
\* process, run no callback and emitted no aggregate message, and its
\* download_sdk call has returned.
C7_ProbeFailureStartsNothing ==
    \A b \in Batches :
        outcome[b] = "cancelled" =>
            /\ \A i \in Repos : ~prepared[b][i] /\ task[b][i] = NoTask
            /\ okSig[b] = 0
            /\ failSig[b] = 0
            /\ b = nb => mpc \in {"idle", "restore"}

C7_Witness ==
    /\ outcome[2] = "cancelled"
    /\ \E i \in Repos : Spawned(1, i) /\ Reported(1, i)

\* C8: a launch failure sets only its own clone to reporting with error 1,
\* that callback never writes repos_updated, the caller then goes on to the
\* next repository or returns normally, and a waiting sibling only ever
\* moves on to its own callback.
C8_LaunchFailureIsolated ==
    [][ /\ \A b \in Batches, i \in Repos :
              (task[b][i].st = "none" /\ task'[b][i].err = 1) =>
                  /\ task'[b][i].st = "d1"
                  /\ \A c \in Batches, j \in Repos :
                        (c # b \/ j # i) => task'[c][j] = task[c][j]
                  /\ files' = files
        /\ \A b \in Batches, i \in Repos :
              (task[b][i].err = 1 /\ task'[b][i] # task[b][i]) =>
                  repos_updated' = repos_updated
        /\ (mpc = "inline" /\ mpc' # "inline") =>
              IF mi < NumRepos
              THEN mpc' = "pre" /\ mi' = mi + 1 /\ outcome'[nb] = "started"
              ELSE mpc' = "idle" /\ outcome'[nb] = "returned"
        /\ \A b \in Batches, i \in Repos :
              task[b][i].st = "wait" => task'[b][i].st \in {"wait", "d1"}
        /\ \A b \in Batches :
              outcome'[b] = "returned" => \A i \in Repos : task'[b][i].st # "none"
      ]_vars

C8_Witness ==
    \E b \in Batches, i, j \in Repos :
        /\ outcome[b] = "returned"
        /\ task[b][i].err = 1 /\ Reported(b, i)
        /\ Spawned(b, j) /\ Reported(b, j)
        /\ repos_updated = 1

\* C9: a filesystem failure in git_clone never leaves download_sdk as an
\* exception; every path the batch has handled has its clone launched or
\* reported with an error.
C9_FilesystemFailureCaught ==
    \A b \in Batches :
        /\ outcome[b] # "raised"
        /\ \A i \in Repos :
              (prepared[b][i] /\ ~(b = nb /\ i = mi /\ mpc = "launch")) =>
                  task[b][i].st # "none"

\* C10: when a fetch found a clone at the path and no backup, so that it
\* moved the clone to the backup, and the path has been restored since,
\* the path holds that clone again and the backup is gone.
C10_RoundTrip ==
    \A i \in Repos :
        (restored[i] /\ IsClone(snap[i]) /\ snapBk[i] = Absent) =>
            /\ fs[i] = snap[i]
            /\ bk[i] = Absent

C10_Witness ==
    \E i \in Repos :
        /\ restored[i]
        /\ snap[i] = CloneOf(1)
        /\ snapBk[i] = Absent
        /\ prepared[2][i]
        /\ Spawned(2, i) /\ Reported(2, i)
        /\ fs[i] = CloneOf(1)
        /\ bk[i] = Absent

\* C11: a restore_repo call on a path that has no backup, or that was
\* restored already since the last fetch, changes no path and no backup.
C11_RestoreNoBackupNoOp ==
    [][ (mpc = "restore" /\
         (bk[RestoreOrder[mi]] = Absent \/ restored[RestoreOrder[mi]])) =>
            files' = files ]_vars

C11_Witness ==
    /\ nb = 0
    /\ mpc = "idle"
    /\ \A i \in Repos : restored[i] /\ fs[i] = OldCopy /\ bk[i] = Absent

\* C12: a batch has emitted no aggregate message as long as its
\* download_sdk call has not returned.
C12_SignalAfterReturn ==
    \A b \in Batches : Emitted(b) > 0 => outcome[b] = "returned"

\* C13: the filesystem statements of git_clone, when they do not raise:
\* a copy without a backup becomes the backup, a copy with a backup is
\* deleted and the backup kept, no copy changes nothing; the path is then
\* absent, a backup exists iff a copy or a backup existed, and no other
\* path is touched.
C13_PreCloneStep ==
    [][ (mpc = "pre" /\ mpc' = "launch") =>
            /\ (fs[mi] # Absent /\ bk[mi] = Absent) => bk'[mi] = fs[mi]
            /\ (fs[mi] # Absent /\ bk[mi] # Absent) => bk'[mi] = bk[mi]
            /\ fs[mi] = Absent => files' = files
            /\ fs'[mi] = Absent
            /\ (bk'[mi] # Absent) <=> (fs[mi] # Absent \/ bk[mi] # Absent)
            /\ \A j \in Repos \ {mi} : fs'[j] = fs[j] /\ bk'[j] = bk[j] ]_vars

C13_Witness ==
    /\ mpc = "launch"
    /\ snap[mi] # Absent
    /\ snapBk[mi] # Absent
    /\ fs[mi] = Absent
    /\ bk[mi] = snapBk[mi]

\* C14: a restore_repo call that removes a backup leaves the former backup
\* content at the path, and when the restore operator returns no path that
\* download_sdk fetches has a backup left.
C14_RestoreAll ==
    /\ {RestoreNames[k] : k \in DOMAIN RestoreNames} =
         {FetchNames[k] : k \in DOMAIN FetchNames}
    /\ [][ mpc = "restore" =>
          LET p == RestoreOrder[mi] IN
            /\ (bk[p] # Absent /\ bk'[p] = Absent) => fs'[p] = bk[p]
            /\ (mpc' = "idle" /\ bk'[p] = Absent) =>
                  \A i \in Repos : bk'[i] = Absent ]_vars

C14_Witness ==
    /\ mpc = "idle"
    /\ \A i \in Repos : restored[i] /\ fs[i] = OldBackup /\ bk[i] = Absent

\* C15: a batch whose clone processes were all spawned, and whose clones
\* have all reported, has emitted the aggregate success message, whatever
\* the exit statuses of the processes were.
C15_SpawnedBatchSucceeds ==
    \A b \in Batches :
        (AllReported(b) /\ NumSpawned(b) = NumRepos) => okSig[b] >= 1

\* Batch b has a clone that was launched and has not reported yet.
InFlight(b) == \E i \in Repos : task[b][i].st \notin {"none", "fin"}

\* The download_sdk call of batch b has passed its three resets.
Counting(b) ==
    \/ outcome[b] \in {"returned", "raised"}
    \/ outcome[b] = "started" /\ mpc \in {"pre", "launch", "inline"}

\* C16: while clones of an earlier batch are still in flight, a step of the
\* caller thread in a later download_sdk call changes no counter; and once a
\* later batch has set up its counters, a completion callback of an earlier
\* batch changes no counter and emits no message of the later batch.
C16_BatchOwnsCounters ==
    [][ \A b \in Batches :
          /\ (b < nb /\ InFlight(b) /\ task' = task) => globals' = globals
          /\ (b < nb /\ Counting(nb) /\ task'[b] # task[b]) =>
                /\ globals' = globals
                /\ okSig'[nb] = okSig[nb]
                /\ failSig'[nb] = failSig[nb] ]_vars

\* C17: a backup that exists keeps its content in every step except a
\* restore_repo call that removes it; and a path restored after fetches
\* that found a backup holds the content of that backup, whatever the
\* earlier fetches had put at the path.
C17_BackupKept ==
    /\ [](\A i \in Repos :
            (restored[i] /\ snapBk[i] # Absent) =>
                (fs[i] = snapBk[i] /\ bk[i] = Absent))
    /\ [][ \A i \in Repos :
            bk[i] # Absent =>
                \/ bk'[i] = bk[i]
                \/ mpc = "restore" /\ bk'[i] = Absent ]_vars

C17_Witness ==
    /\ nb >= 2
    /\ \E i \in Repos :
          /\ prepared[1][i] /\ prepared[2][i]
          /\ snap[i] = CloneOf(1)
          /\ snapBk[i] = OldCopy
          /\ restored[i]
          /\ fs[i] = OldCopy
          /\ bk[i] = Absent

\* C18: the calls of start.register and start.unregister alternate,
\* beginning with register, and running is True exactly when the last call
\* was a register.
C18_RegisterAlternates ==
    /\ \A k \in 1..Len(calls) :
          calls[k] = IF k % 2 = 1 THEN "register" ELSE "unregister"
    /\ running <=> (Len(calls) > 0 /\ calls[Len(calls)] = "register")

====
